---- MODULE Spec2Model ----
(***************************************************************************)
(* Route reuse strategy (NSRouteReuseStrategy, DetachedStateCache) and the *)
(* PageRouterOutlet directive of the NativeScript Angular router.          *)
(*                                                                         *)
(* A route snapshot is a node of a fixed route tree; a component reference *)
(* is a number 1..MaxComp (0 stands for null/undefined); an outlet key is  *)
(* a string; JavaScript truthiness is kept by modelling the values         *)
(* true/false/undefined/null as the strings "true", "false", "undefined",  *)
(* "null".  The modal navigation depth of the location strategy is 0.      *)
(***************************************************************************)
EXTENDS Integers, Sequences, FiniteSets, TLC

\* ------------------------------------------------------------------ bounds
MaxComp == 3          \* component references the outlets may create
MaxOpComp == 2        \* of them, created while the operations are called freely
MaxCache == 2         \* items pushed on one DetachedStateCache
MaxCtxDepth == 2      \* child contexts below an outlet's own context
MaxItems == 3         \* action items of the action bar

\* ------------------------------------------------------- the route tree
\* 1 root; 2 page A, 3 page B and 4 (page A again: a fresh snapshot of the
\* same url) in the root page-router-outlet; under A: 5 a componentless
\* route wrapping page 6, and page 9, both of the nested page-router-outlet;
\* 7 a component under 6 shown in a plain router-outlet; 8 and 10 the pages
\* of a lazy loaded named outlet.
Routes == 1..10

parent(r) ==
  CASE r = 1 -> 0
    [] r \in {2, 3, 4} -> 1
    [] r \in {5, 8, 9, 10} -> 2
    [] r = 6 -> 5
    [] r = 7 -> 6

\* routeConfig: the identity of the Route object (0: null, the root's)
routeConfig(r) ==
  CASE r = 1 -> 0
    [] r \in {2, 4} -> 1
    [] r = 3 -> 2
    [] r = 5 -> 3
    [] r = 6 -> 4
    [] r = 7 -> 5
    [] r = 8 -> 6
    [] r = 9 -> 7
    [] r = 10 -> 8

hasComponent(r) == r # 5

\* ActivatedRouteSnapshot.toString()
toString(r) ==
  CASE r = 1 -> "root"
    [] r \in {2, 4} -> "a"
    [] r = 3 -> "b"
    [] r = 5 -> "w"
    [] r = 6 -> "d"
    [] r = 7 -> "f"
    [] r = 8 -> "g"
    [] r = 9 -> "e"
    [] r = 10 -> "h"

\* NSLocationStrategy.getRouteFullPath: the key of the outlet a route is
\* rendered in; the routes of one outlet share it.
getRouteFullPath(r) ==
  CASE r = 1 -> "k0"
    [] r \in {2, 3, 4} -> "k1"
    [] r \in {5, 9} -> "k2"
    [] r = 6 -> "k3"
    [] r = 7 -> "k4"
    [] r \in {8, 10} -> "k5"

\* NSLocationStrategy.getPathByOutlets
getPathByOutlets(r) ==
  CASE r = 1 -> "p0"
    [] r \in {2, 3, 4} -> "p1"
    [] r \in {5, 6, 9} -> "p2"
    [] r = 7 -> "p4"
    [] r \in {8, 10} -> "p5"

RECURSIVE pathFromRoot(_)
pathFromRoot(r) ==
  IF parent(r) = 0 THEN <<r>> ELSE Append(pathFromRoot(parent(r)), r)

\* snapshot.pathFromRoot.join('->'): the toString() of every snapshot from
\* the root, in order (the sequence stands for the joined string).
getSnapshotKey(r) ==
  [i \in 1..Len(pathFromRoot(r)) |-> toString(pathFromRoot(r)[i])]

RECURSIVE findTopActivatedRouteNodeForOutlet(_)
findTopActivatedRouteNodeForOutlet(r) ==
  IF parent(r) # 0 /\ routeConfig(parent(r)) # 0 /\ ~hasComponent(parent(r))
  THEN findTopActivatedRouteNodeForOutlet(parent(r))
  ELSE r

\* ------------------------------------------------- outlets and directives
Outlets == {1, 2}          \* Outlet objects of the location strategy
outletParent(o) == IF o = 2 THEN 1 ELSE 0
outletPathByOutlets(o) == IF o = 1 THEN "p1" ELSE "p2"
InitialOutletKeys(o) == IF o = 1 THEN <<"k1">> ELSE <<"k2">>

PROs == {1, 2}             \* PageRouterOutlet directives
Comps == 1..MaxComp
CtxKinds == {"noOutlet", "page", "other"}

Truthy(v) == v = "true"

VARIABLES
  marker,          \* route[pageRouterActivatedSymbol]: "undefined" | "true"
  outletKeys,      \* Outlet.outletKeys
  isPageNavigationBack,  \* Outlet.isPageNavigationBack
  shouldDetachFlag,      \* Outlet.shouldDetach
  frames,          \* Outlet.frames (the frame of directive p is p)
  navOptions,      \* NSLocationStrategy._currentNavigationOptions
  cacheByOutlet,   \* NSRouteReuseStrategy.cacheByOutlet: key -> items
  activated,       \* PageRouterOutlet.activated (0: null)
  activatedRoute,  \* PageRouterOutlet._activatedRoute (snapshot, 0: null)
  outlet,          \* PageRouterOutlet.outlet (0: undefined)
  isEmptyOutlet,   \* PageRouterOutlet.isEmptyOutlet (set when constructed)
  contexts,        \* child contexts of the directive's name, top down
  nextComp,        \* next component reference to create
  destroyed,       \* component references destroyed so far
  pageCb,          \* per page: navigatedTo handler and its timeout
  frameStack,      \* pages in the frame of each directive (its back stack)
  router,          \* the router's position in a navigation
  navigationButton,  \* ActionBar.navigationButton (0: null)
  titleView,       \* ActionBar.titleView (0: null)
  actionItems,     \* ActionBar.actionItems: the items, in order
  parentNode,      \* node.parentNode is the bar
  last             \* the last call: arguments, result, events, errors

vars == <<marker, outletKeys, isPageNavigationBack, shouldDetachFlag, frames,
          navOptions, cacheByOutlet, activated, activatedRoute, outlet,
          isEmptyOutlet,
          contexts, nextComp, destroyed, pageCb, frameStack, router,
          navigationButton, titleView, actionItems, parentNode, last>>

locVars == <<outletKeys, isPageNavigationBack, shouldDetachFlag, frames, navOptions>>
proVars == <<activated, activatedRoute, outlet, isEmptyOutlet>>
compVars == <<nextComp, destroyed, pageCb, frameStack>>
barVars == <<navigationButton, titleView, actionItems, parentNode>>

\* the nodes of an action bar's template
NavigationButtons == {1, 2}
ActionItemNodes == {3, 4}
TitleViews == {5, 6}
InvisibleNodes == {7}
Nodes == NavigationButtons \cup ActionItemNodes \cup TitleViews \cup InvisibleNodes

NoCall ==
  [op |-> "none", p |-> 0, route |-> 0, ref |-> 0, ret |-> "undefined",
   retRef |-> 0, key |-> "", ev |-> <<>>, fin |-> 0, err |-> "", next |-> 0]

Call(op, p, route) == [NoCall EXCEPT !.op = op, !.p = p, !.route = route]

Idle == [pc |-> "idle", p |-> 0, to |-> 0, ref |-> 0]

Init ==
  /\ marker = [r \in Routes |-> "undefined"]
  /\ outletKeys = [o \in Outlets |-> InitialOutletKeys(o)]
  /\ isPageNavigationBack = [o \in Outlets |-> FALSE]
  /\ shouldDetachFlag = [o \in Outlets |-> "true"]
  /\ frames = [o \in Outlets |-> {}]
  /\ navOptions = "default"
  /\ cacheByOutlet = <<>>
  /\ activated = [p \in PROs |-> 0]
  /\ activatedRoute = [p \in PROs |-> 0]
  /\ outlet = [p \in PROs |-> 0]
  /\ \E lazy \in BOOLEAN : isEmptyOutlet = [p \in PROs |-> p = 2 /\ lazy]
  /\ contexts = [p \in PROs |-> <<>>]
  /\ nextComp = 1
  /\ destroyed = {}
  /\ pageCb = [c \in Comps |-> [cb |-> "none", st |-> "idle", p |-> 0,
                                 opts |-> "default"]]
  /\ frameStack = [p \in PROs |-> 0]
  /\ router = [nav |-> Idle, cur |-> [p \in PROs |-> 0]]
  /\ navigationButton = 0
  /\ titleView = 0
  /\ actionItems = <<>>
  /\ parentNode = [n \in Nodes |-> FALSE]
  /\ last = NoCall

\* ------------------------------------------------ NSLocationStrategy
Min(S) == CHOOSE x \in S : \A y \in S : x <= y
Range(q) == {q[i] : i \in 1..Len(q)}

\* findOutlet(outletKey, snapshot) over the outlet keys `keys`: the first
\* outlet holding the key, else the first outlet of the snapshot's path.
findOutletIn(keys, key, r) ==
  LET byKey == {o \in Outlets : key \in Range(keys[o])}
      byPath == {o \in Outlets : outletPathByOutlets(o) = getPathByOutlets(r)}
  IN  IF byKey # {} THEN Min(byKey)
      ELSE IF r # 0 /\ byPath # {} THEN Min(byPath)
      ELSE 0

findOutlet(key, r) == findOutletIn(outletKeys, key, r)

\* getOutletByFrame(frame)
getOutletByFrameIn(fr, p) ==
  LET S == {o \in Outlets : p \in fr[o]} IN IF S = {} THEN 0 ELSE Min(S)

\* ------------------------------------------------ NSRouteReuseStrategy
RECURSIVE walkToOutlet(_)
walkToOutlet(route) ==
  IF findOutlet(getRouteFullPath(route), route) # 0 THEN route
  ELSE IF parent(route) = 0 THEN 0
  ELSE walkToOutlet(parent(route))

RECURSIVE walkToKey(_, _)
walkToKey(o, route) ==
  IF getRouteFullPath(route) \in Range(outletKeys[o]) THEN route
  ELSE IF parent(route) = 0 THEN 0
  ELSE walkToKey(o, parent(route))

findValidOutletAndKey(target) ==
  LET r1 == walkToOutlet(target) IN
  IF r1 = 0 THEN [outlet |-> 0, outletKey |-> getRouteFullPath(target)]
  ELSE LET o == findOutlet(getRouteFullPath(r1), r1)
           r2 == walkToKey(o, r1)
       IN  IF r2 = 0 THEN [outlet |-> o, outletKey |-> getRouteFullPath(target)]
           ELSE [outlet |-> o, outletKey |-> getRouteFullPath(r2)]

\* while (!(isPageActivated = tmp[pageRouterActivatedSymbol]) && tmp.parent)
RECURSIVE isPageActivated(_)
isPageActivated(r) ==
  IF marker[r] = "true" THEN "true"
  ELSE IF parent(r) # 0 THEN isPageActivated(parent(r))
  ELSE marker[r]

\* shouldDetach without the check of the parent outlet's shouldDetach
shouldDetachIgnoringParent(route) ==
  LET top == findTopActivatedRouteNodeForOutlet(route)
      o == findValidOutletAndKey(top).outlet
  IN  IF o = 0 THEN "null"
      ELSE IF isPageNavigationBack[o] THEN "false"
      ELSE isPageActivated(top)

\* the value shouldDetach(route) returns
shouldDetachResult(route) ==
  LET top == findTopActivatedRouteNodeForOutlet(route)
      o == findValidOutletAndKey(top).outlet
      isBack == IF o # 0 THEN isPageNavigationBack[o] ELSE FALSE
      v == IF o = 0 THEN "null"
           ELSE IF isBack THEN "false"
           ELSE isPageActivated(top)
  IN  IF o # 0 /\ outletParent(o) # 0 /\ ~Truthy(shouldDetachFlag[outletParent(o)])
      THEN "false"
      ELSE v

ShouldDetach(route) ==
  LET top == findTopActivatedRouteNodeForOutlet(route)
      o == findValidOutletAndKey(top).outlet
      v == shouldDetachResult(route)
  IN  /\ shouldDetachFlag' =
           IF o # 0 THEN [shouldDetachFlag EXCEPT ![o] = v] ELSE shouldDetachFlag
      /\ last' = [Call("shouldDetach", 0, route) EXCEPT !.ret = v]
      /\ UNCHANGED <<marker, outletKeys, isPageNavigationBack, frames, navOptions,
                     cacheByOutlet, proVars, contexts, compVars>>

peek(cache) == cache[Len(cache)]
pop(cache) == SubSeq(cache, 1, Len(cache) - 1)

\* shouldAttach without the check of isPageNavigationBack
shouldAttachIgnoringBack(route) ==
  LET top == findTopActivatedRouteNodeForOutlet(route)
      f == findValidOutletAndKey(top)
  IN  IF f.outletKey \notin DOMAIN cacheByOutlet THEN FALSE
      ELSE /\ Len(cacheByOutlet[f.outletKey]) > 0
           /\ peek(cacheByOutlet[f.outletKey]).key = getSnapshotKey(top)

\* the value shouldAttach(route) returns
shouldAttachResult(route) ==
  LET top == findTopActivatedRouteNodeForOutlet(route)
      f == findValidOutletAndKey(top)
      isBack == IF f.outlet # 0 THEN isPageNavigationBack[f.outlet] ELSE FALSE
  IN  IF f.outletKey \notin DOMAIN cacheByOutlet THEN FALSE
      ELSE /\ isBack
           /\ Len(cacheByOutlet[f.outletKey]) > 0
           /\ peek(cacheByOutlet[f.outletKey]).key = getSnapshotKey(top)

ShouldAttach(route) ==
  LET top == findTopActivatedRouteNodeForOutlet(route)
      f == findValidOutletAndKey(top)
  IN  /\ shouldDetachFlag' =
           IF f.outletKey \in DOMAIN cacheByOutlet /\ f.outlet # 0
           THEN [shouldDetachFlag EXCEPT ![f.outlet] = "true"]
           ELSE shouldDetachFlag
      /\ last' = [Call("shouldAttach", 0, route) EXCEPT
                    !.ret = IF shouldAttachResult(route) THEN "true" ELSE "false",
                    !.key = f.outletKey]
      /\ UNCHANGED <<marker, outletKeys, isPageNavigationBack, frames, navOptions,
                     cacheByOutlet, proVars, contexts, compVars>>

\* cacheByOutlet after `this.cacheByOutlet[k] = this.cacheByOutlet[k] || new ...`
withCache(k) ==
  IF k \in DOMAIN cacheByOutlet THEN cacheByOutlet
  ELSE [x \in DOMAIN cacheByOutlet \cup {k} |->
          IF x = k THEN <<>> ELSE cacheByOutlet[x]]

without(c, k) == [x \in DOMAIN c \ {k} |-> c[x]]

\* cacheByOutlet after store(route, state) with a handle (state.componentRef =
\* ref, state.route = stored; isModal is false at modal depth 0)
storePush(route, ref, stored) ==
  LET top == findTopActivatedRouteNodeForOutlet(route)
      k == findValidOutletAndKey(top).outletKey
      c == withCache(k)
  IN  [c EXCEPT ![k] = Append(@, [key |-> getSnapshotKey(top), ref |-> ref,
                                   route |-> stored])]

\* store(route, null): the error thrown ("" when none)
storeNullError(route) ==
  LET top == findTopActivatedRouteNodeForOutlet(route)
      k == findValidOutletAndKey(top).outletKey
      c == withCache(k)[k]
  IN  IF Len(c) = 0 THEN "TypeError"
      ELSE IF peek(c).key = getSnapshotKey(top) THEN ""
      ELSE "Trying to pop from DetachedStateCache but keys don't match"

\* store(route, null) popping the top item whatever its key
storePopAnyKey(route) ==
  LET top == findTopActivatedRouteNodeForOutlet(route)
      k == findValidOutletAndKey(top).outletKey
      c == withCache(k)
  IN  IF Len(c[k]) = 0 THEN c
      ELSE IF Len(c[k]) = 1 THEN without(c, k)
      ELSE [c EXCEPT ![k] = pop(@)]

\* cacheByOutlet after store(route, null)
storePop(route) ==
  LET top == findTopActivatedRouteNodeForOutlet(route)
      k == findValidOutletAndKey(top).outletKey
      c == withCache(k)
  IN  IF storeNullError(route) # "" THEN c
      ELSE IF Len(c[k]) = 1 THEN without(c, k)
      ELSE [c EXCEPT ![k] = pop(@)]

Store(route, ref, stored) ==
  LET k == findValidOutletAndKey(findTopActivatedRouteNodeForOutlet(route)).outletKey
  IN  /\ Len(withCache(k)[k]) < MaxCache
      /\ cacheByOutlet' = storePush(route, ref, stored)
      /\ last' = [Call("store", 0, route) EXCEPT !.ref = ref, !.key = k]
      /\ UNCHANGED <<marker, locVars, proVars, contexts, compVars>>

StoreNull(route) ==
  LET k == findValidOutletAndKey(findTopActivatedRouteNodeForOutlet(route)).outletKey
  IN  /\ cacheByOutlet' = storePop(route)
      /\ last' = [Call("storeNull", 0, route) EXCEPT
                    !.err = storeNullError(route), !.key = k]
      /\ UNCHANGED <<marker, locVars, proVars, contexts, compVars>>

\* the handle retrieve(route) returns: a cache item, or null
retrieveResult(route) ==
  LET top == findTopActivatedRouteNodeForOutlet(route)
      f == findValidOutletAndKey(top)
      isBack == IF f.outlet # 0 THEN isPageNavigationBack[f.outlet] ELSE FALSE
  IN  IF f.outletKey \notin DOMAIN cacheByOutlet THEN "null"
      ELSE IF /\ isBack
              /\ Len(cacheByOutlet[f.outletKey]) > 0
              /\ peek(cacheByOutlet[f.outletKey]).key = getSnapshotKey(top)
           THEN "state"
           ELSE "null"

retrieveState(route) ==
  LET top == findTopActivatedRouteNodeForOutlet(route)
  IN  peek(cacheByOutlet[findValidOutletAndKey(top).outletKey])

Retrieve(route) ==
  /\ last' = [Call("retrieve", 0, route) EXCEPT
                !.ret = retrieveResult(route),
                !.retRef = IF retrieveResult(route) = "state"
                           THEN retrieveState(route).ref ELSE 0]
  /\ UNCHANGED <<marker, locVars, cacheByOutlet, proVars, contexts, compVars>>

shouldReuseResult(future, curr) == routeConfig(future) = routeConfig(curr)

\* shouldReuseRoute copying the marker whenever the route is reused
reuseMarkerAlways(future, curr) ==
  IF shouldReuseResult(future, curr) /\ curr # 0 THEN marker[curr] ELSE marker[future]

\* future[pageRouterActivatedSymbol] after shouldReuseRoute(future, curr)
reuseMarker(future, curr) ==
  IF shouldReuseResult(future, curr) /\ curr # 0 /\ Truthy(marker[curr])
  THEN marker[curr]
  ELSE marker[future]

ShouldReuseRoute(future, curr) ==
  /\ marker' = [marker EXCEPT ![future] = reuseMarker(future, curr)]
  /\ last' = [Call("shouldReuseRoute", 0, future) EXCEPT
                !.ref = curr,
                !.ret = IF shouldReuseResult(future, curr) THEN "true" ELSE "false"]
  /\ UNCHANGED <<locVars, cacheByOutlet, proVars, contexts, compVars>>

\* destroyComponentRef(ref): the set of destroyed references afterwards
destroyComponentRef(d, ref) == IF ref # 0 THEN d \cup {ref} ELSE d

\* DetachedStateCache.clear(): pops from the top; an item without
\* componentRef is popped and then the error is thrown.
RECURSIVE clear(_, _)
clear(cache, d) ==
  IF Len(cache) = 0 THEN [cache |-> cache, destroyed |-> d, err |-> ""]
  ELSE IF peek(cache).ref = 0
       THEN [cache |-> pop(cache), destroyed |-> d,
             err |-> "No componentRef found in DetachedRouteHandle"]
  ELSE clear(pop(cache), destroyComponentRef(d, peek(cache).ref))

\* clearCache(outletKey) applied to the state s = [caches, destroyed, err]
clearCache(s, k) ==
  IF k \notin DOMAIN s.caches THEN s
  ELSE LET c == clear(s.caches[k], s.destroyed)
       IN  [caches |-> [s.caches EXCEPT ![k] = c.cache],
            destroyed |-> c.destroyed, err |-> c.err]

\* popCache without destroyComponentRef
popCacheKeeping(s, k) ==
  IF k \notin DOMAIN s.caches \/ Len(s.caches[k]) = 0 THEN s
  ELSE [caches |-> [s.caches EXCEPT ![k] = pop(@)],
        destroyed |-> s.destroyed, err |-> ""]

\* popCache(outletKey) applied to the state s = [caches, destroyed, err]
popCache(s, k) ==
  IF k \notin DOMAIN s.caches \/ Len(s.caches[k]) = 0 THEN s
  ELSE [caches |-> [s.caches EXCEPT ![k] = pop(@)],
        destroyed |-> destroyComponentRef(s.destroyed, peek(s.caches[k]).ref),
        err |-> ""]

\* this.outlet.outletKeys.forEach(f): in order, stopping at a thrown error
RECURSIVE forEachKey(_, _, _)
forEachKey(s, keys, clearing) ==
  IF Len(keys) = 0 \/ s.err # "" THEN s
  ELSE forEachKey(IF clearing THEN clearCache(s, Head(keys))
                  ELSE popCache(s, Head(keys)),
                  Tail(keys), clearing)

\* ------------------------------------------------------ PageRouterOutlet
\* isFinalPageRouterOutlet(): the child contexts of the directive's name,
\* top down; past the end of the chain getContext() returns nothing.
RECURSIVE isFinalWalk(_)
isFinalWalk(chain) ==
  IF Len(chain) = 0 \/ Head(chain) = "noOutlet" THEN TRUE
  ELSE IF Head(chain) = "page" THEN FALSE
  ELSE isFinalWalk(Tail(chain))

\* isFinalPageRouterOutlet looking at the first child context only
isFinalFirstContext(p) == Len(contexts[p]) = 0 \/ Head(contexts[p]) # "page"

isFinalPageRouterOutlet(p) == isFinalWalk(contexts[p])

\* _finishBackPageNavigation(frame): isPageNavigationBack afterwards
finishBackPageNavigation(p) ==
  LET o == getOutletByFrameIn(frames', p) IN
  IF o = 0 \/ ~isPageNavigationBack[o] THEN isPageNavigationBack
  ELSE [isPageNavigationBack EXCEPT ![o] = FALSE]

\* deactivate() setting activated to null without destroyComponentRef
DeactivateWithoutDestroy(p) ==
  LET acts == outlet[p] # 0 /\ isPageNavigationBack[outlet[p]] /\ activated[p] # 0
  IN  /\ activated' = IF acts THEN [activated EXCEPT ![p] = 0] ELSE activated
      /\ activatedRoute' =
           IF acts THEN [activatedRoute EXCEPT ![p] = 0] ELSE activatedRoute
      /\ last' = [Call("deactivate", p, 0) EXCEPT
                    !.ev = IF acts THEN <<<<"deactivate", activated[p]>>>> ELSE <<>>]
      /\ UNCHANGED <<marker, locVars, cacheByOutlet, outlet, isEmptyOutlet, contexts,
                     compVars>>

\* deactivate() without the check of isPageNavigationBack
DeactivateAlways(p) ==
  LET acts == outlet[p] # 0 /\ activated[p] # 0
  IN  /\ activated' = IF acts THEN [activated EXCEPT ![p] = 0] ELSE activated
      /\ activatedRoute' =
           IF acts THEN [activatedRoute EXCEPT ![p] = 0] ELSE activatedRoute
      /\ destroyed' =
           IF acts THEN destroyComponentRef(destroyed, activated[p]) ELSE destroyed
      /\ last' = [Call("deactivate", p, 0) EXCEPT
                    !.ev = IF acts THEN <<<<"deactivate", activated[p]>>>> ELSE <<>>]
      /\ UNCHANGED <<marker, locVars, cacheByOutlet, outlet, isEmptyOutlet, contexts,
                     nextComp, pageCb, frameStack>>

Deactivate(p) ==
  LET acts == outlet[p] # 0 /\ isPageNavigationBack[outlet[p]] /\ activated[p] # 0
  IN  /\ activated' = IF acts THEN [activated EXCEPT ![p] = 0] ELSE activated
      /\ activatedRoute' =
           IF acts THEN [activatedRoute EXCEPT ![p] = 0] ELSE activatedRoute
      /\ destroyed' =
           IF acts THEN destroyComponentRef(destroyed, activated[p]) ELSE destroyed
      /\ last' = [Call("deactivate", p, 0) EXCEPT
                    !.ev = IF acts THEN <<<<"deactivate", activated[p]>>>> ELSE <<>>]
      /\ UNCHANGED <<marker, locVars, cacheByOutlet, outlet, isEmptyOutlet, contexts,
                     nextComp, pageCb, frameStack>>

\* detach() destroying the component it returns
DetachDestroying(p) ==
  LET acts == activated[p] # 0
  IN  /\ activated' = IF acts THEN [activated EXCEPT ![p] = 0] ELSE activated
      /\ activatedRoute' =
           IF acts THEN [activatedRoute EXCEPT ![p] = 0] ELSE activatedRoute
      /\ destroyed' =
           IF acts THEN destroyComponentRef(destroyed, activated[p]) ELSE destroyed
      /\ last' = [Call("detach", p, activatedRoute[p]) EXCEPT
                    !.retRef = activated[p],
                    !.ret = IF acts THEN "ref" ELSE "undefined",
                    !.ev = IF acts THEN <<<<"detach", activated[p]>>>> ELSE <<>>]
      /\ UNCHANGED <<marker, locVars, cacheByOutlet, outlet, isEmptyOutlet, contexts,
                     nextComp, pageCb, frameStack>>

Detach(p) ==
  LET acts == activated[p] # 0
  IN  /\ activated' = IF acts THEN [activated EXCEPT ![p] = 0] ELSE activated
      /\ activatedRoute' =
           IF acts THEN [activatedRoute EXCEPT ![p] = 0] ELSE activatedRoute
      /\ last' = [Call("detach", p, activatedRoute[p]) EXCEPT
                    !.retRef = activated[p],
                    !.ret = IF acts THEN "ref" ELSE "undefined",
                    !.ev = IF acts THEN <<<<"detach", activated[p]>>>> ELSE <<>>]
      /\ UNCHANGED <<marker, locVars, cacheByOutlet, outlet, isEmptyOutlet, contexts,
                     compVars>>

\* markActivatedRoute(activatedRoute): the markers afterwards, the outlets
\* looked up with the outlet keys `keys` and frames `fr`
RECURSIVE subtree(_)
subtree(r) ==
  {r} \cup UNION {subtree(c) : c \in {x \in Routes : parent(x) = r}}

\* (deep: the snapshot has its child routes below it, else it is a leaf)
markActivatedRoute(keys, fr, r, deep) ==
  LET tops == {findTopActivatedRouteNodeForOutlet(c) :
                 c \in IF deep THEN subtree(r) ELSE {r}}
      hit(t) == LET o == findOutletIn(keys, getRouteFullPath(t), t)
                IN  o # 0 /\ fr[o] # {}
  IN  [x \in Routes |-> IF x \in tops /\ hit(x) THEN "true" ELSE marker[x]]

\* attach(ref, route) is given what the last call, detach(), took away
reattaches(p, ref, route) ==
  last.op = "detach" /\ last.p = p /\ last.retRef = ref /\ last.route = route

\* attach() without the assignment of _activatedRoute
AttachKeepingRoute(p, ref, route, deep) ==
  LET final == isFinalPageRouterOutlet(p)
  IN  /\ activated' = [activated EXCEPT ![p] = ref]
      /\ marker' = markActivatedRoute(outletKeys, frames, route, deep)
      /\ UNCHANGED frames
      /\ isPageNavigationBack' =
           IF final THEN finishBackPageNavigation(p) ELSE isPageNavigationBack
      /\ last' = [Call("attach", p, route) EXCEPT
                    !.ref = ref, !.fin = IF final THEN 1 ELSE 0,
                    !.ret = IF reattaches(p, ref, route) THEN "reattached"
                            ELSE "undefined",
                    !.ev = <<<<"attach", ref>>>>]
      /\ UNCHANGED <<outletKeys, shouldDetachFlag, navOptions, cacheByOutlet,
                     activatedRoute, outlet, isEmptyOutlet, contexts, compVars>>

Attach(p, ref, route, deep) ==
  LET final == isFinalPageRouterOutlet(p)
  IN  /\ activated' = [activated EXCEPT ![p] = ref]
      /\ activatedRoute' = [activatedRoute EXCEPT ![p] = route]
      /\ marker' = markActivatedRoute(outletKeys, frames, route, deep)
      /\ UNCHANGED frames
      /\ isPageNavigationBack' =
           IF final THEN finishBackPageNavigation(p) ELSE isPageNavigationBack
      /\ last' = [Call("attach", p, route) EXCEPT
                    !.ref = ref, !.fin = IF final THEN 1 ELSE 0,
                    !.ret = IF reattaches(p, ref, route) THEN "reattached"
                            ELSE "undefined",
                    !.ev = <<<<"attach", ref>>>>]
      /\ UNCHANGED <<outletKeys, shouldDetachFlag, navOptions, cacheByOutlet,
                     outlet, isEmptyOutlet, contexts, compVars>>

\* getOutlet(snapshot): the outlet found, and the key pushed on its
\* outletKeys ("" when none): a lazy loaded named outlet joins its parent's.
getOutlet(p, route) ==
  LET top == findTopActivatedRouteNodeForOutlet(route)
      key == getRouteFullPath(top)
      o == findOutlet(key, top)
      po == findOutlet(getRouteFullPath(parent(top)), parent(top))
  IN  IF o = 0 /\ isEmptyOutlet[p]
      THEN [outlet |-> po, push |-> IF po # 0 THEN key ELSE ""]
      ELSE [outlet |-> o, push |-> ""]

\* the handler loadComponentInPage registers for the page's navigatedTo
navigatedToHandler(opts) ==
  IF opts \in {"clearHistory", "both"} THEN "clear"
  ELSE IF opts = "replaceUrl" THEN "pop"
  ELSE "none"

\* the pages in the frame after loadComponentInPage: replacePage(entry) when
\* replacing a current page, else navigate(entry) with entry.clearHistory
frameAfter(n, opts) ==
  IF opts = "replaceUrl" /\ n > 0 THEN n
  ELSE IF opts \in {"clearHistory", "both"} THEN 1
  ELSE n + 1

ActivateWith(p, route, deep) ==
  LET g == IF outlet[p] # 0 THEN [outlet |-> outlet[p], push |-> ""]
           ELSE getOutlet(p, route)
      o == g.outlet
      back == o # 0 /\ isPageNavigationBack[o]
      final == isFinalPageRouterOutlet(p)
      c == nextComp
  IN  IF o = 0
      THEN /\ last' = Call("activateWith", p, route)
           /\ UNCHANGED <<marker, locVars, cacheByOutlet, proVars, contexts, compVars>>
      ELSE /\ nextComp <= MaxComp
           /\ outlet' = [outlet EXCEPT ![p] = o]
           /\ outletKeys' = IF g.push # "" THEN [outletKeys EXCEPT ![o] = Append(@, g.push)]
                            ELSE outletKeys
           /\ frames' = [frames EXCEPT ![o] = @ \cup {p}]
           /\ isPageNavigationBack' =
                IF back /\ final THEN finishBackPageNavigation(p)
                ELSE isPageNavigationBack
           /\ activatedRoute' = [activatedRoute EXCEPT ![p] = route]
           /\ marker' = markActivatedRoute(outletKeys', frames', route, deep)
           /\ activated' = [activated EXCEPT ![p] = c]
           /\ nextComp' = c + 1
           /\ pageCb' = [pageCb EXCEPT ![c] =
                [cb |-> navigatedToHandler(navOptions),
                 st |-> IF navigatedToHandler(navOptions) = "none" THEN "idle"
                        ELSE "waiting",
                 p |-> p, opts |-> navOptions]]
           /\ navOptions' = "default"
           /\ frameStack' = [frameStack EXCEPT ![p] = frameAfter(@, navOptions)]
           /\ last' = [Call("activateWith", p, route) EXCEPT
                         !.retRef = c, !.fin = IF back /\ final THEN 1 ELSE 0,
                         !.ret = IF back THEN "back" ELSE "forward",
                         !.ev = <<<<"activate", c>>>>]
           /\ UNCHANGED <<shouldDetachFlag, cacheByOutlet, isEmptyOutlet, contexts,
                          destroyed>>

\* the page of component c raises navigatedTo: the once-handler, when one
\* was registered, schedules the timeout that clears or pops the caches
NavigatedTo(c) ==
  /\ c < nextComp
  /\ pageCb[c].st = "waiting"
  /\ pageCb' = [pageCb EXCEPT ![c].st = "timer"]
  /\ last' = [Call("navigatedTo", pageCb[c].p, 0) EXCEPT !.ref = c, !.ret = pageCb[c].cb]
  /\ UNCHANGED <<marker, locVars, cacheByOutlet, proVars, contexts, nextComp,
                 destroyed, frameStack>>

\* the setTimeout callback of clearCallback
Timeout(c) ==
  LET p == pageCb[c].p
      s0 == [caches |-> cacheByOutlet, destroyed |-> destroyed, err |-> ""]
      s1 == IF outlet[p] = 0 THEN s0
            ELSE forEachKey(s0, outletKeys[outlet[p]], pageCb[c].cb = "clear")
  IN  /\ c < nextComp
      /\ pageCb[c].st = "timer"
      /\ pageCb' = [pageCb EXCEPT ![c].st = "done"]
      /\ cacheByOutlet' = s1.caches
      /\ destroyed' = s1.destroyed
      /\ last' = [Call("timeout", p, 0) EXCEPT !.ref = c, !.ret = pageCb[c].cb,
                    !.err = s1.err]
      /\ UNCHANGED <<marker, locVars, proVars, contexts, nextComp, frameStack>>

\* ------------------------------------------------------- the environment
\* the page of component c raises navigatedFrom; the handler is removed
\* when the component is destroyed
beginBackPageNavigation(p) ==
  LET o == getOutletByFrameIn(frames, p) IN
  IF o = 0 \/ isPageNavigationBack[o] THEN isPageNavigationBack
  ELSE [isPageNavigationBack EXCEPT ![o] = TRUE]

\* the navigatedFrom handler left on the page of a destroyed component
NavigatedFromNeverRemoved(c, isBackNavigation) ==
  LET p == pageCb[c].p
  IN  /\ c < nextComp
      /\ isPageNavigationBack' =
           IF isBackNavigation THEN beginBackPageNavigation(p)
           ELSE isPageNavigationBack
      /\ last' = [Call("navigatedFrom", p, 0) EXCEPT
                    !.ref = c,
                    !.ret = IF isBackNavigation THEN "true" ELSE "false",
                    !.ev = IF isBackNavigation
                           THEN <<<<"_beginBackPageNavigation", p>>, <<"back", p>>>>
                           ELSE <<>>]
      /\ frameStack' = IF isBackNavigation /\ p # 0 /\ frameStack[p] > 1
                       THEN [frameStack EXCEPT ![p] = @ - 1] ELSE frameStack
      /\ UNCHANGED <<marker, outletKeys, shouldDetachFlag, frames, navOptions,
                     cacheByOutlet, proVars, contexts, nextComp, destroyed, pageCb>>

NavigatedFrom(c, isBackNavigation) ==
  LET on == c \notin destroyed /\ isBackNavigation
      p == pageCb[c].p
  IN  /\ c < nextComp
      /\ isPageNavigationBack' =
           IF on THEN beginBackPageNavigation(p) ELSE isPageNavigationBack
      /\ last' = [Call("navigatedFrom", p, 0) EXCEPT
                    !.ref = c,
                    !.ret = IF isBackNavigation THEN "true" ELSE "false",
                    !.ev = IF on THEN <<<<"_beginBackPageNavigation", p>>, <<"back", p>>>>
                           ELSE <<>>]
      /\ frameStack' = IF isBackNavigation /\ p # 0 /\ frameStack[p] > 1
                       THEN [frameStack EXCEPT ![p] = @ - 1] ELSE frameStack
      /\ UNCHANGED <<marker, outletKeys, shouldDetachFlag, frames, navOptions,
                     cacheByOutlet, proVars, contexts, nextComp, destroyed, pageCb>>

\* router.navigate(..., {clearHistory, replaceUrl}): _setNavigationOptions
SetNavigationOptions(opts) ==
  /\ navOptions' = opts
  /\ last' = [Call("setNavigationOptions", 0, 0) EXCEPT !.ret = opts]
  /\ UNCHANGED <<marker, outletKeys, isPageNavigationBack, shouldDetachFlag, frames,
                 cacheByOutlet, proVars, contexts, compVars>>

\* Angular creates or destroys outlets below the directive
ContextsChange(p, chain) ==
  /\ contexts' = [contexts EXCEPT ![p] = chain]
  /\ last' = Call("contexts", p, 0)
  /\ UNCHANGED <<marker, locVars, cacheByOutlet, proVars, compVars>>

Chains == UNION {[1..n -> CtxKinds] : n \in 0..MaxCtxDepth}
NavOpts == {"default", "replaceUrl", "clearHistory", "both"}
Activatable == {2, 3, 4, 6, 8, 9, 10}
\* the routes whose component the router renders in directive p
Hosted(p) == IF p = 1 THEN {2, 3, 4} ELSE IF isEmptyOutlet[p] THEN {8, 10} ELSE {6, 9}
Created == 1..(nextComp - 1)

\* ----------------------------------------- every operation, called freely
OpShouldDetach == \E r \in Routes : ShouldDetach(r) /\ UNCHANGED <<router, barVars>>
OpShouldAttach == \E r \in Routes : ShouldAttach(r) /\ UNCHANGED <<router, barVars>>
OpShouldReuseRoute ==
  \E f \in Routes, c \in Routes :
     parent(f) = parent(c) /\ ShouldReuseRoute(f, c) /\ UNCHANGED <<router, barVars>>
\* the router stores what detach() returned, under the detached route
OpStore ==
  \E r \in Activatable :
     /\ last.op = "detach"
     /\ last.retRef # 0
     /\ r \in (IF last.route # 0 THEN {last.route} ELSE Hosted(last.p))
     /\ Store(r, last.retRef, r)
     /\ UNCHANGED <<router, barVars>>
OpStoreNull == \E r \in Activatable : StoreNull(r) /\ UNCHANGED <<router, barVars>>
OpRetrieve == \E r \in Routes : Retrieve(r) /\ UNCHANGED <<router, barVars>>
OpDeactivate == \E p \in PROs : Deactivate(p) /\ UNCHANGED <<router, barVars>>
OpDetach == \E p \in PROs : Detach(p) /\ UNCHANGED <<router, barVars>>
OpAttach ==
  \E p \in PROs, ref \in Created, deep \in BOOLEAN : \E r \in Hosted(p) :
     Attach(p, ref, r, deep) /\ UNCHANGED <<router, barVars>>
OpActivateWith ==
  \E p \in PROs, deep \in BOOLEAN : \E r \in Hosted(p) :
     nextComp <= MaxOpComp /\ ActivateWith(p, r, deep) /\ UNCHANGED <<router, barVars>>
OpNavigatedFrom ==
  \E c \in Comps, b \in BOOLEAN : NavigatedFrom(c, b) /\ UNCHANGED <<router, barVars>>
\* one context at a time appears or disappears below the root directive
\* (nothing lies below the nested one)
OpContextsChange ==
  \E ch \in Chains :
     /\ \/ Len(ch) = Len(contexts[1]) + 1 /\ SubSeq(ch, 1, Len(contexts[1])) = contexts[1]
        \/ Len(contexts[1]) > 0 /\ ch = SubSeq(contexts[1], 1, Len(contexts[1]) - 1)
     /\ ContextsChange(1, ch)
     /\ UNCHANGED <<router, barVars>>

\* the reuse decisions of the strategy, over the outlets' and routes' state
NextDetach ==
  \/ OpShouldDetach \/ OpShouldReuseRoute \/ OpActivateWith \/ OpNavigatedFrom

SpecDetach == Init /\ [][NextDetach]_vars

\* the detached-state caches
NextCache ==
  \/ OpShouldAttach \/ OpStore \/ OpStoreNull \/ OpRetrieve
  \/ OpActivateWith \/ OpDetach \/ OpNavigatedFrom

SpecCache == Init /\ [][NextCache]_vars

\* the outlet directive
NextOutlet ==
  \/ OpDeactivate \/ OpDetach \/ OpAttach \/ OpActivateWith
  \/ OpNavigatedFrom

SpecOutlet == Init /\ [][NextOutlet]_vars

\* the outlet directive among the outlets nested below it
NextFinal ==
  \/ OpAttach \/ OpActivateWith \/ OpNavigatedFrom \/ OpContextsChange

SpecFinal == Init /\ [][NextFinal]_vars

\* ------------------------------------------------------ the action bar
outletState == <<marker, locVars, cacheByOutlet, proVars, contexts, compVars, router>>

isInvisibleNode(n) == n \in InvisibleNodes
isNavigationButton(n) == n \in NavigationButtons
isActionItem(n) == n \in ActionItemNodes \cup NavigationButtons
isView(n) == n \in TitleViews

\* Array.prototype.indexOf, 0-based; -1 when absent
indexOf(items, x) ==
  IF \E i \in 1..Len(items) : items[i] = x
  THEN Min({i \in 1..Len(items) : items[i] = x}) - 1
  ELSE -1

\* Array.prototype.splice(start, 0, x): a negative start counts from the end
splice(items, start, x) ==
  LET at == IF start < 0 THEN (IF Len(items) + start < 0 THEN 0 ELSE Len(items) + start)
            ELSE IF start > Len(items) THEN Len(items) ELSE start
  IN  SubSeq(items, 1, at) \o <<x>> \o SubSeq(items, at + 1, Len(items))

\* insertActionItemBefore(bar, item, next): the items afterwards
insertActionItemBefore(items, item, next) ==
  splice(items, indexOf(items, next), item)

\* appendActionItem(bar, item): ActionItems.addItem
appendActionItem(items, item) == Append(items, item)

\* addActionItem(bar, item, next) (next = 0: no next sibling)
addActionItem(items, item, next) ==
  IF next # 0 THEN insertActionItemBefore(items, item, next)
  ELSE appendActionItem(items, item)

\* ActionItems.removeItem(item): the items without the item's first occurrence
removeItem(items, item) ==
  LET i == indexOf(items, item) + 1
  IN  SubSeq(items, 1, i - 1) \o SubSeq(items, i + 1, Len(items))

\* actionBarMeta.insertChild(parent, child, next)
InsertChild(child, next) ==
  /\ isActionItem(child) /\ ~isNavigationButton(child) => Len(actionItems) < MaxItems
  /\ navigationButton' = IF isNavigationButton(child) THEN child ELSE navigationButton
  /\ actionItems' = IF ~isInvisibleNode(child) /\ ~isNavigationButton(child)
                       /\ isActionItem(child)
                    THEN addActionItem(actionItems, child, next)
                    ELSE actionItems
  /\ titleView' = IF isView(child) THEN child ELSE titleView
  /\ parentNode' = IF isNavigationButton(child) \/ isActionItem(child)
                   THEN [parentNode EXCEPT ![child] = TRUE]
                   ELSE parentNode
  /\ last' = [Call("insertChild", 0, 0) EXCEPT !.ref = child, !.next = next]
  /\ UNCHANGED outletState

\* removeChild setting navigationButton to null whatever button is removed
RemoveChildClearing(child) ==
  LET item == ~isNavigationButton(child) /\ isActionItem(child)
      missing == item /\ indexOf(actionItems, child) < 0
  IN  /\ navigationButton' = IF isNavigationButton(child) THEN 0 ELSE navigationButton
      /\ actionItems' = IF item /\ ~missing THEN removeItem(actionItems, child)
                        ELSE actionItems
      /\ titleView' = IF isView(child) /\ titleView = child THEN 0 ELSE titleView
      /\ parentNode' = IF isNavigationButton(child) \/ (item /\ ~missing)
                       THEN [parentNode EXCEPT ![child] = FALSE]
                       ELSE parentNode
      /\ last' = [Call("removeChild", 0, 0) EXCEPT
                    !.ref = child,
                    !.err = IF missing THEN "Cannot find item to remove" ELSE ""]
      /\ UNCHANGED outletState

\* actionBarMeta.removeChild(parent, child); ActionItems.removeItem throws
\* when the item is not among the items
RemoveChild(child) ==
  LET item == ~isNavigationButton(child) /\ isActionItem(child)
      missing == item /\ indexOf(actionItems, child) < 0
  IN  /\ navigationButton' = IF isNavigationButton(child) /\ navigationButton = child
                             THEN 0 ELSE navigationButton
      /\ actionItems' = IF item /\ ~missing THEN removeItem(actionItems, child)
                        ELSE actionItems
      /\ titleView' = IF isView(child) /\ titleView = child THEN 0 ELSE titleView
      /\ parentNode' = IF isNavigationButton(child) \/ (item /\ ~missing)
                       THEN [parentNode EXCEPT ![child] = FALSE]
                       ELSE parentNode
      /\ last' = [Call("removeChild", 0, 0) EXCEPT
                    !.ref = child,
                    !.err = IF missing THEN "Cannot find item to remove" ELSE ""]
      /\ UNCHANGED outletState

\* ActionBarScope.onNavButtonInit(navBtn)
OnNavButtonInit(nav) ==
  /\ navigationButton' = nav
  /\ last' = [Call("onNavButtonInit", 0, 0) EXCEPT !.ref = nav]
  /\ UNCHANGED <<titleView, actionItems, parentNode, outletState>>

\* ActionBarScope.onNavButtonDestroy(navBtn)
OnNavButtonDestroy(nav) ==
  /\ navigationButton' = IF nav # 0 /\ navigationButton = nav THEN 0 ELSE navigationButton
  /\ last' = [Call("onNavButtonDestroy", 0, 0) EXCEPT !.ref = nav]
  /\ UNCHANGED <<titleView, actionItems, parentNode, outletState>>

\* ActionBarScope.onActionInit(item)
OnActionInit(item) ==
  /\ Len(actionItems) < MaxItems
  /\ actionItems' = appendActionItem(actionItems, item)
  /\ last' = [Call("onActionInit", 0, 0) EXCEPT !.ref = item]
  /\ UNCHANGED <<navigationButton, titleView, parentNode, outletState>>

\* ActionBarScope.onActionDestroy(item): item.actionBar is set while the
\* item is among the bar's items
OnActionDestroy(item) ==
  /\ actionItems' = IF indexOf(actionItems, item) >= 0 THEN removeItem(actionItems, item)
                    ELSE actionItems
  /\ last' = [Call("onActionDestroy", 0, 0) EXCEPT !.ref = item]
  /\ UNCHANGED <<navigationButton, titleView, parentNode, outletState>>

\* the renderer inserts and removes the children of the bar's template, the
\* next sibling being any other node or none; the directives of an
\* ActionBarExtension are created and destroyed
\* (the next sibling is read for an action item only)
OpInsertChild ==
  \E child \in Nodes :
     \E next \in IF child \in ActionItemNodes THEN Nodes \cup {0} ELSE {0} :
        InsertChild(child, next)
OpRemoveChild == \E child \in Nodes : RemoveChild(child)
OpNavButtonInit == \E nav \in NavigationButtons : OnNavButtonInit(nav)
OpNavButtonDestroy == \E nav \in NavigationButtons : OnNavButtonDestroy(nav)
OpActionInit == \E item \in ActionItemNodes : OnActionInit(item)
OpActionDestroy == \E item \in ActionItemNodes : OnActionDestroy(item)

NextBar ==
  \/ OpInsertChild \/ OpRemoveChild \/ OpNavButtonInit \/ OpNavButtonDestroy
  \/ OpActionInit \/ OpActionDestroy

SpecBar == Init /\ [][NextBar]_vars

\* ------------------------------------------- the router's navigations
\* One navigation of the Angular router changes the route shown in
\* directive p from router.cur[p] to `to`: createRouterState
\* (shouldReuseRoute, shouldAttach), then the activation: shouldDetach,
\* detach and store or deactivate, then shouldAttach, retrieve,
\* store(route, null) and attach, or activateWith.
Goto(pc) == [router EXCEPT !.nav.pc = pc]
nav == router.nav
from == router.cur[nav.p]

\* a navigation starts: locationStrategy.back() going back, else
\* router.navigate() with its navigation options
RStart ==
  \E p \in PROs, opts \in NavOpts : \E to \in Hosted(p) \ {router.cur[p]} :
     /\ nav.pc = "idle"
     /\ IF outlet[p] # 0 /\ isPageNavigationBack[outlet[p]]
        THEN /\ opts = "default"
             /\ last' = Call("back", p, to)
             /\ UNCHANGED <<marker, locVars, cacheByOutlet, proVars, contexts, compVars>>
        ELSE /\ nextComp <= MaxComp
             /\ SetNavigationOptions(opts)
     /\ UNCHANGED barVars
     /\ router' = [router EXCEPT
                     !.nav = [pc |-> IF router.cur[p] = 0 THEN "create" ELSE "reuse",
                              p |-> p, to |-> to, ref |-> 0]]

RShouldReuseRoute ==
  /\ nav.pc = "reuse"
  /\ ShouldReuseRoute(nav.to, from)
  /\ UNCHANGED barVars
  /\ router' = Goto(IF shouldReuseResult(nav.to, from) THEN "advance" ELSE "create")

\* advanceActivatedRoute: the reused ActivatedRoute takes the new snapshot
RAdvance ==
  /\ nav.pc = "advance"
  /\ activatedRoute' = IF activated[nav.p] # 0
                       THEN [activatedRoute EXCEPT ![nav.p] = nav.to]
                       ELSE activatedRoute
  /\ UNCHANGED barVars
  /\ router' = [router EXCEPT !.nav = Idle, !.cur[nav.p] = nav.to]
  /\ last' = Call("advance", nav.p, nav.to)
  /\ UNCHANGED <<marker, locVars, cacheByOutlet, activated, outlet, isEmptyOutlet,
                 contexts, compVars>>

RCreate ==
  /\ nav.pc = "create"
  /\ ShouldAttach(nav.to)
  /\ UNCHANGED barVars
  /\ router' = Goto("commit")

RShouldDetach ==
  /\ nav.pc = "commit"
  /\ from # 0
  /\ ShouldDetach(from)
  /\ UNCHANGED barVars
  /\ router' = Goto(IF Truthy(shouldDetachResult(from)) THEN "detach" ELSE "deactivate")

RDetach ==
  /\ nav.pc = "detach"
  /\ Detach(nav.p)
  /\ UNCHANGED barVars
  /\ router' = [router EXCEPT !.nav.pc = "store", !.nav.ref = activated[nav.p]]

RStore ==
  /\ nav.pc = "store"
  /\ Store(from, nav.ref, from)
  /\ UNCHANGED barVars
  /\ router' = Goto("activate")

RDeactivate ==
  /\ nav.pc = "deactivate"
  /\ Deactivate(nav.p)
  /\ UNCHANGED barVars
  /\ router' = Goto("activate")

RShouldAttach ==
  /\ nav.pc = "activate" \/ (nav.pc = "commit" /\ from = 0)
  /\ ShouldAttach(nav.to)
  /\ UNCHANGED barVars
  /\ router' = Goto(IF shouldAttachResult(nav.to) THEN "retrieve" ELSE "activateWith")

RRetrieve ==
  /\ nav.pc = "retrieve"
  /\ Retrieve(nav.to)
  /\ UNCHANGED barVars
  /\ router' = [router EXCEPT !.nav.pc = "storeNull",
                              !.nav.ref = retrieveState(nav.to).ref]

RStoreNull ==
  /\ nav.pc = "storeNull"
  /\ StoreNull(nav.to)
  /\ UNCHANGED barVars
  /\ router' = Goto("attach")

RAttach ==
  \E deep \in BOOLEAN :
     /\ nav.pc = "attach"
     /\ Attach(nav.p, nav.ref, nav.to, deep)
     /\ UNCHANGED barVars
     /\ router' = [router EXCEPT !.nav = Idle, !.cur[nav.p] = nav.to]

RActivateWith ==
  \E deep \in BOOLEAN :
     /\ nav.pc = "activateWith"
     /\ ActivateWith(nav.p, nav.to, deep)
     /\ UNCHANGED barVars
     /\ router' = [router EXCEPT !.nav = Idle, !.cur[nav.p] = nav.to]

\* between navigations the frames raise their events and the timeouts run
Quiet == nav.pc = "idle"

\* the current page of a frame with a back stack is navigated back from
RNavigatedFrom ==
  \E c \in Comps :
     /\ nav.pc = "idle"
     /\ c < nextComp
     /\ activated[pageCb[c].p] = c
     /\ frameStack[pageCb[c].p] > 1
     /\ NavigatedFrom(c, TRUE)
     /\ UNCHANGED <<router, barVars>>

RNavigatedTo == \E c \in Comps : Quiet /\ NavigatedTo(c) /\ UNCHANGED <<router, barVars>>
RTimeout == \E c \in Comps : Quiet /\ Timeout(c) /\ UNCHANGED <<router, barVars>>
Next ==
  \/ RStart \/ RShouldReuseRoute \/ RAdvance \/ RCreate
  \/ RShouldDetach \/ RDetach \/ RStore \/ RDeactivate
  \/ RShouldAttach \/ RRetrieve \/ RStoreNull \/ RAttach \/ RActivateWith
  \/ RNavigatedFrom \/ RNavigatedTo \/ RTimeout

Spec == Init /\ [][Next]_vars

\* ------------------------------------------------------------ properties
\* the route itself and its ancestors
RECURSIVE upward(_)
upward(r) == IF parent(r) = 0 THEN {r} ELSE {r} \cup upward(parent(r))

resolved(route) == findValidOutletAndKey(findTopActivatedRouteNodeForOutlet(route))

\* C1: shouldDetach(route) returns a truthy value exactly when an outlet is
\* found for the top activated node or an ancestor, that outlet is not in
\* page back navigation, the node or an ancestor carries the page-activated
\* marker, and the outlet has no parent outlet whose shouldDetach flag is
\* false; whenever an outlet is found its shouldDetach flag holds the value
\* returned.  (The call changes the found outlet's flag only, so the
\* conditions are read in the state after the call.)
ShouldDetachContract ==
  last.op = "shouldDetach" =>
    LET top == findTopActivatedRouteNodeForOutlet(last.route)
        found == \E a \in upward(top) : findOutlet(getRouteFullPath(a), a) # 0
        o == resolved(last.route).outlet
    IN  /\ found <=> o # 0
        /\ Truthy(last.ret) <=>
             /\ found
             /\ ~isPageNavigationBack[o]
             /\ \E a \in upward(top) : marker[a] = "true"
             /\ ~(outletParent(o) # 0 /\ ~Truthy(shouldDetachFlag[outletParent(o)]))
        /\ found => shouldDetachFlag[o] = last.ret

\* a nested outlet's route is kept from detaching by its parent outlet's flag
ShouldDetachWitness ==
  /\ last.op = "shouldDetach"
  /\ resolved(last.route).outlet = 2
  /\ ~isPageNavigationBack[2]
  /\ \E a \in upward(findTopActivatedRouteNodeForOutlet(last.route)) : marker[a] = "true"
  /\ shouldDetachFlag[1] = "false"
  /\ last.ret = "false"

\* C2: shouldAttach(route) returns true exactly when a cache exists for the
\* resolved outlet key, the resolved outlet is in page back navigation and
\* the key of the cache's top item is the snapshot key of the top activated
\* node; it returns false in every forward navigation and when the matching
\* page is cached below the top item.
ShouldAttachContract ==
  last.op = "shouldAttach" =>
    LET top == findTopActivatedRouteNodeForOutlet(last.route)
        f == resolved(last.route)
        has == f.outletKey \in DOMAIN cacheByOutlet
        c == IF has THEN cacheByOutlet[f.outletKey] ELSE <<>>
        isBack == f.outlet # 0 /\ isPageNavigationBack[f.outlet]
    IN  /\ last.ret = "true" <=>
             /\ has
             /\ isBack
             /\ Len(c) > 0
             /\ c[Len(c)].key = getSnapshotKey(top)
        /\ ~isBack => last.ret = "false"
        /\ (Len(c) > 0 /\ c[Len(c)].key # getSnapshotKey(top)
              /\ \E i \in 1..Len(c) : c[i].key = getSnapshotKey(top))
           => last.ret = "false"

\* going back, the page is cached below the top item: not attached
ShouldAttachWitness ==
  /\ last.op = "shouldAttach"
  /\ last.ret = "false"
  /\ LET f == resolved(last.route)
         k == getSnapshotKey(findTopActivatedRouteNodeForOutlet(last.route))
     IN  /\ f.outlet # 0
         /\ isPageNavigationBack[f.outlet]
         /\ f.outletKey \in DOMAIN cacheByOutlet
         /\ Len(cacheByOutlet[f.outletKey]) = 2
         /\ cacheByOutlet[f.outletKey][1].key = k
         /\ cacheByOutlet[f.outletKey][2].key # k

\* C3: shouldReuseRoute(future, curr) returns true exactly when both have
\* the same routeConfig; when it returns true and curr carries the
\* page-activated marker, future carries it afterwards, and in every other
\* case future's marker is left as it was.
ShouldReuseRouteContract ==
  [][last'.op = "shouldReuseRoute" =>
       LET f == last'.route
           c == last'.ref
       IN  /\ last'.ret = "true" <=> routeConfig(f) = routeConfig(c)
           /\ IF last'.ret = "true" /\ marker[c] = "true"
              THEN marker'[f] = "true"
              ELSE marker'[f] = marker[f]
           /\ \A r \in Routes \ {f} : marker'[r] = marker[r]]_vars

\* a reused route whose predecessor is not marked keeps its own marker
ShouldReuseRouteWitness ==
  /\ last.op = "shouldReuseRoute"
  /\ last.ret = "true"
  /\ last.route # last.ref
  /\ marker[last.ref] = "undefined"
  /\ marker[last.route] = "true"

\* the component references held in the detached-state caches
Cached ==
  UNION {{cacheByOutlet[k][i].ref : i \in 1..Len(cacheByOutlet[k])} :
           k \in DOMAIN cacheByOutlet}
Live == Created \ destroyed
Held == {activated[p] : p \in PROs} \cup Cached

DeactivateContract ==
  [][last'.op = "deactivate" =>
       LET p == last'.p
           acts == outlet[p] # 0 /\ isPageNavigationBack[outlet[p]] /\ activated[p] # 0
       IN  IF acts
           THEN /\ activated[p] \notin destroyed
                   => destroyed' = destroyed \cup {activated[p]}
                /\ activated[p] \in destroyed'
                /\ activated'[p] = 0
                /\ activatedRoute'[p] = 0
                /\ last'.ev = << <<"deactivate", activated[p]>> >>
           ELSE /\ last'.ev = <<>>
                /\ UNCHANGED <<marker, locVars, cacheByOutlet, proVars, contexts,
                               compVars>>]_vars

\* deactivate() called on an activated, resolved outlet outside a back
\* navigation: nothing happened
DeactivateWitness ==
  /\ last.op = "deactivate"
  /\ last.ev = <<>>
  /\ outlet[last.p] # 0
  /\ ~isPageNavigationBack[outlet[last.p]]
  /\ activated[last.p] # 0
  /\ destroyed # {}

\* C6: detach() on an activated outlet returns the activated component
\* reference, leaves the outlet not activated with a null route, emits one
\* detach event with the component and does not destroy it; on an outlet
\* that is not activated it returns nothing, emits nothing and changes no
\* state.
DetachContract ==
  [][last'.op = "detach" =>
       LET p == last'.p
       IN  IF activated[p] # 0
           THEN /\ last'.ret = "ref"
                /\ last'.retRef = activated[p]
                /\ activated'[p] = 0
                /\ activatedRoute'[p] = 0
                /\ last'.ev = << <<"detach", activated[p]>> >>
                /\ destroyed' = destroyed
                /\ \A q \in PROs \ {p} :
                     activated'[q] = activated[q] /\ activatedRoute'[q] = activatedRoute[q]
           ELSE /\ last'.ret = "undefined"
                /\ last'.ev = <<>>
                /\ UNCHANGED <<marker, locVars, cacheByOutlet, proVars, contexts,
                               compVars>>]_vars

\* a live component has been detached from its outlet
DetachWitness ==
  /\ last.op = "detach"
  /\ last.ret = "ref"
  /\ last.retRef \notin destroyed
  /\ activated[last.p] = 0
  /\ activatedRoute[last.p] = 0

\* C7: for an activated outlet with component c and route r, ref = detach()
\* followed by attach(ref, r) leaves the outlet activated with c and r,
\* emits one attach event with c, and creates and destroys no component.
RoundTrip ==
  [][/\ last'.op = "detach" => UNCHANGED <<nextComp, destroyed>>
     /\ (/\ last.op = "detach"
         /\ last.retRef # 0
         /\ last'.op = "attach"
         /\ last'.p = last.p
         /\ last'.ref = last.retRef
         /\ last'.route = last.route)
        => /\ activated'[last.p] = last.retRef
           /\ activatedRoute'[last.p] = last.route
           /\ last'.ev = << <<"attach", last.retRef>> >>
           /\ UNCHANGED <<nextComp, destroyed>>]_vars

\* the attach of a round trip has run
RoundTripWitness ==
  /\ last.op = "attach"
  /\ last.ret = "reattached"
  /\ activated[last.p] = last.ref
  /\ activatedRoute[last.p] = last.route
  /\ last.ref \notin destroyed
  /\ \E q \in PROs \ {last.p} : activated[q] # 0

\* the walk of isFinalPageRouterOutlet, said as the claim says it: no
\* page-router-outlet is met before the first missing context or context
\* without an outlet
noPageOutletBelow(ch) ==
  ~\E i \in 1..Len(ch) :
      ch[i] = "page" /\ \A j \in 1..(i - 1) : ch[j] = "other"

\* C8: attach() calls _finishBackPageNavigation exactly when no
\* page-router-outlet is reachable down the child contexts of the outlet's
\* name; activateWith() calls it exactly when, in addition, the resolved
\* outlet is in page back navigation; an outlet above a nested
\* page-router-outlet of its name leaves the back navigation unfinished.
FinishContract ==
  [][/\ last'.op = "attach" =>
          /\ last'.fin = 1 <=> noPageOutletBelow(contexts[last'.p])
          /\ last'.fin = 0 => UNCHANGED isPageNavigationBack
     /\ (last'.op = "activateWith" /\ outlet'[last'.p] # 0) =>
          /\ last'.fin = 1 <=>
               /\ noPageOutletBelow(contexts[last'.p])
               /\ isPageNavigationBack[outlet'[last'.p]]
          /\ last'.fin = 0 => UNCHANGED isPageNavigationBack]_vars

\* going back, an outlet above a context without an outlet finished the back
\* navigation although a page-router-outlet lies further down
FinishWitness ==
  /\ last.op = "activateWith"
  /\ last.ret = "back"
  /\ last.fin = 1
  /\ contexts[last.p] = <<"noOutlet", "page">>
  /\ ~isPageNavigationBack[outlet[last.p]]

\* C9: store(route, null) on a non-empty cache whose top item has another
\* key throws "Trying to pop from DetachedStateCache but keys don't match"
\* and leaves the cache as it was; when the top item's key matches, exactly
\* the top item is removed, and it is not destroyed.
StoreNullContract ==
  [][last'.op = "storeNull" =>
       LET top == findTopActivatedRouteNodeForOutlet(last'.route)
           k == resolved(last'.route).outletKey
           c == IF k \in DOMAIN cacheByOutlet THEN cacheByOutlet[k] ELSE <<>>
           c2 == IF k \in DOMAIN cacheByOutlet' THEN cacheByOutlet'[k] ELSE <<>>
       IN  Len(c) > 0 =>
             /\ \A x \in (DOMAIN cacheByOutlet) \ {k} :
                  x \in DOMAIN cacheByOutlet' /\ cacheByOutlet'[x] = cacheByOutlet[x]
             /\ destroyed' = destroyed
             /\ IF c[Len(c)].key # getSnapshotKey(top)
                THEN /\ last'.err =
                          "Trying to pop from DetachedStateCache but keys don't match"
                     /\ c2 = c
                ELSE /\ last'.err = ""
                     /\ c2 = SubSeq(c, 1, Len(c) - 1)]_vars

\* the keys did not match: the error was thrown over a cache of two items
StoreNullWitness ==
  /\ last.op = "storeNull"
  /\ last.err = "Trying to pop from DetachedStateCache but keys don't match"
  /\ last.key \in DOMAIN cacheByOutlet
  /\ Len(cacheByOutlet[last.key]) = 2

\* the component references held in the cache of the outlet keys `keys`
cachedUnder(keys) ==
  UNION {{cacheByOutlet[k][i].ref : i \in 1..Len(cacheByOutlet[k])} :
           k \in keys \cap DOMAIN cacheByOutlet}

\* C10: when the deferred callback of a page's navigatedTo runs, after a
\* navigation with clearHistory the cache of every outlet key of the outlet
\* is empty and every component cached there is destroyed; else after one
\* with replaceUrl the top item, if any, of the cache of each outlet key is
\* removed and destroyed; with neither option the page's navigatedTo
\* modifies no cache.
NavigatedToContract ==
  [][/\ last'.op = "timeout" =>
          LET c == last'.ref
              opts == pageCb[c].opts
              keys == Range(outletKeys[outlet[last'.p]]) \cap DOMAIN cacheByOutlet
          IN  /\ opts \in {"clearHistory", "both", "replaceUrl"}
              /\ DOMAIN cacheByOutlet' = DOMAIN cacheByOutlet
              /\ \A k \in (DOMAIN cacheByOutlet) \ keys :
                   cacheByOutlet'[k] = cacheByOutlet[k]
              /\ IF opts \in {"clearHistory", "both"}
                 THEN /\ \A k \in keys : cacheByOutlet'[k] = <<>>
                      /\ cachedUnder(keys) \subseteq destroyed'
                 ELSE \A k \in keys :
                        IF Len(cacheByOutlet[k]) = 0
                        THEN cacheByOutlet'[k] = <<>>
                        ELSE /\ cacheByOutlet'[k] =
                                  SubSeq(cacheByOutlet[k], 1, Len(cacheByOutlet[k]) - 1)
                             /\ cacheByOutlet[k][Len(cacheByOutlet[k])].ref
                                  \in destroyed'
     /\ (last'.op = "activateWith" /\ outlet'[last'.p] # 0) =>
          pageCb'[last'.retRef].st = "idle" <=> navOptions = "default"
     /\ cacheByOutlet' # cacheByOutlet \/ destroyed' # destroyed =>
          \/ last'.op \in {"store", "storeNull", "deactivate"}
          \/ last'.op = "timeout" /\ pageCb[last'.ref].opts # "default"]_vars

\* the callback of a navigation with clearHistory and replaceUrl has
\* cleared a cache of two pages
NavigatedToWitness ==
  /\ last.op = "timeout"
  /\ pageCb[last.ref].opts = "both"
  /\ Cardinality(destroyed) >= 2
  /\ \E k \in DOMAIN cacheByOutlet : cacheByOutlet[k] = <<>>

\* C11: a navigatedFrom with isBackNavigation true raised by a page whose
\* component is not destroyed makes the outlet call
\* _beginBackPageNavigation and then back, on its frame, once each; with
\* isBackNavigation false, or once the component has been destroyed (the
\* handler is removed), nothing is called and no outlet is put in back
\* navigation.
NavigatedFromContract ==
  [][last'.op = "navigatedFrom" =>
       IF last'.ret = "true" /\ last'.ref \notin destroyed
       THEN last'.ev = << <<"_beginBackPageNavigation", last'.p>>,
                          <<"back", last'.p>> >>
       ELSE /\ last'.ev = <<>>
            /\ UNCHANGED <<marker, locVars, cacheByOutlet, proVars, contexts,
                           nextComp, destroyed, pageCb>>]_vars

\* a live page was navigated back from: both calls made, the outlet of the
\* frame is in back navigation
NavigatedFromWitness ==
  /\ last.op = "navigatedFrom"
  /\ last.ret = "true"
  /\ last.ref \notin destroyed
  /\ Len(last.ev) = 2
  /\ outlet[last.p] # 0
  /\ isPageNavigationBack[outlet[last.p]]

\* C12 (as stated): insertChild of an action item places it immediately
\* before next when next is one of the bar's action items, and otherwise (no
\* next, or a next that is not among the action items) at the end of the
\* action items.
InsertChildAsStated ==
  [][(last'.op = "insertChild" /\ last'.ref \in ActionItemNodes) =>
       LET item == last'.ref
           next == last'.next
           i == indexOf(actionItems, next)
       IN  IF i >= 0
           THEN actionItems' = SubSeq(actionItems, 1, i) \o <<item>>
                                 \o SubSeq(actionItems, i + 1, Len(actionItems))
           ELSE actionItems' = Append(actionItems, item)]_vars

\* C13: removeChild and onNavButtonDestroy set navigationButton to null only
\* when it is the removed button, removeChild sets titleView to null only
\* when it is the removed view, removing an invisible node changes nothing;
\* removing a navigation button that a later one replaced leaves the later
\* one in place.
RemoveContract ==
  [][/\ last'.op \in {"removeChild", "onNavButtonDestroy"} =>
          /\ navigationButton' # navigationButton =>
               navigationButton = last'.ref /\ navigationButton' = 0
          /\ (last'.ref \in NavigationButtons /\ navigationButton = last'.ref) =>
               navigationButton' = 0
          /\ titleView' # titleView =>
               /\ last'.op = "removeChild"
               /\ titleView = last'.ref
               /\ titleView' = 0
          /\ actionItems' # actionItems =>
               /\ indexOf(actionItems, last'.ref) >= 0
               /\ Len(actionItems') = Len(actionItems) - 1
          /\ last'.ref \in InvisibleNodes => UNCHANGED barVars]_vars

\* a replaced navigation button was removed: the later one is in place
RemoveWitness ==
  /\ last.op = "removeChild"
  /\ last.ref \in NavigationButtons
  /\ navigationButton \in NavigationButtons \ {last.ref}
  /\ ~parentNode[last.ref]
  /\ parentNode[navigationButton]
====
